---- MODULE Spec2Model ----
(***************************************************************************)
(* A model of app.py, the AI Travel Planner: the request normalizer        *)
(* (parse_natural_language), the attraction lookup (get_top_attractions),  *)
(* the itinerary composer (generate_itinerary) and the two submission      *)
(* handlers of the Streamlit script (natural language and form).           *)
(*                                                                         *)
(* Python values are tagged records [kind, val]; a dict is a function from *)
(* its keys to tagged values.  A piece of text that the code only searches *)
(* for a marker is a sequence of tokens, the marker being one token.       *)
(* A function that can raise returns [exc, ret], exc = "none" when it      *)
(* returns normally.                                                       *)
(***************************************************************************)
EXTENDS Naturals, Sequences, FiniteSets, TLC

VARIABLES
    pc,                  \* position of the script run: idle, normalizing, fetching, composing
    input_mode,          \* input method of the current / last submission: none, nl, form
    debug_mode,          \* st.session_state.debug_mode
    session_parsed_data, \* st.session_state.parsed_data, None while the key is not set
    data,                \* the handler's local request (parsed_data / data), None if there is none
    response,            \* what model.generate_content gave the normalizer in this submission
    page,                \* what requests.get gave the lookup in this submission
    attractions,         \* the list get_top_attractions returned
    displayed,           \* the attraction lines written to the page (attractions[:5])
    itinerary,           \* the text generate_itinerary returned
    outcome,             \* how the submission ended: none, warning, error, rendered, fault
    fault,               \* the exception that left the handler uncaught, "none" if none did
    calls,               \* the stages invoked and external calls attempted in this submission
    debug_dump           \* the request shown by the debug information block of this run, None if not shown

vars == <<pc, input_mode, debug_mode, session_parsed_data, data, response, page,
          attractions, displayed, itinerary, outcome, fault, calls, debug_dump>>

-----------------------------------------------------------------------------
(* Python values *)

None == [kind |-> "None"]
Str(s) == [kind |-> "str", val |-> s]
Num(n) == [kind |-> "num", val |-> n]
List(q) == [kind |-> "list", val |-> q]

Keys == {"destination", "duration", "budget", "interests", "experience_type"}

\* bool(v) of a Python value
Truthy(v) ==
    CASE v.kind = "None" -> FALSE
      [] v.kind = "str"  -> v.val # ""
      [] v.kind = "num"  -> v.val # 0
      [] v.kind = "list" -> v.val # <<>>
      [] OTHER           -> TRUE

\* the first n elements of a sequence: s[:n]
Take(s, n) == SubSeq(s, 1, IF Len(s) < n THEN Len(s) ELSE n)

-----------------------------------------------------------------------------
(* Bounds and program constants *)

\* the longest query, in words, that is submitted
MaxWords == 6
\* the most <h3> headings a results page holds
MaxHeadings == 8

\* len(user_query.split()) < 5
MinWords == 5
\* soup.find_all("h3")[:7]
HeadingLimit == 7
\* attractions[:5]
DisplayLimit == 5

-----------------------------------------------------------------------------
(* The text-generation service seen by the normalizer *)

\* response.text is a sequence of tokens: code-fence markers and documents;
\* [fence] stands for the three backquotes of a markdown code fence
FenceOpen == [kind |-> "fence", val |-> "[fence]json"]
FenceClose == [kind |-> "fence", val |-> "[fence]"]
Dict(f) == [kind |-> "dict", val |-> f]
Garbage == [kind |-> "garbage", val |-> "Sure, here is your trip"]

\* the kinds of token json.loads decodes, named by the Python type it yields
JsonKinds == {"dict", "list", "str", "num", "None"}

\* the values the generator may put in each field of its JSON object
FieldValues(k) ==
    CASE k = "destination"     -> {Str("Kerala"), Str("")}
      [] k = "duration"        -> {Num(5)}
      [] k = "budget"          -> {Str("Luxury"), Str("Cheap")}
      [] k = "interests"       -> {Str("Nature"), List(<<Str("Nature")>>), Num(5)}
      [] k = "experience_type" -> {Str("Offbeat Gems"), Str("Relaxed")}

AllFieldValues == UNION {FieldValues(k) : k \in Keys}

\* the JSON objects the generator may emit: any subset of the keys
ObjectDocs ==
    {Dict(f) : f \in {g \in UNION {[D -> AllFieldValues] : D \in SUBSET Keys} :
                        \A k \in DOMAIN g : g[k] \in FieldValues(k)}}

\* JSON documents that are not objects, and text that is not JSON
OtherDocs ==
    {List(<<Str("destination"), Str("duration")>>), Str("destination, duration"),
     Num(5), None, Garbage}

Docs == ObjectDocs \cup OtherDocs

GenRaise == [kind |-> "raise"]
GenText(t) == [kind |-> "text", text |-> t]
NoResponse == [kind |-> "none"]

\* what model.generate_content(prompt) / response.text may give the normalizer
NormalizerResponses ==
    {GenRaise} \cup {GenText(<<d>>) : d \in Docs}
               \cup {GenText(<<FenceOpen, d, FenceClose>>) : d \in Docs}
               \cup {GenText(<<>>)}

-----------------------------------------------------------------------------
(* parse_natural_language *)

\* a variant of the outer handler that names the classes it expects instead of
\* catching Exception: TypeError, AttributeError and KeyError pass through it
ExceptionClasses_Narrow == {"APIError", "JSONDecodeError", "ValueError", "Timeout"}

\* the classes that except Exception catches
ExceptionClasses ==
    {"APIError", "JSONDecodeError", "ValueError", "TypeError", "AttributeError",
     "KeyError", "Timeout"}

\* except (json.JSONDecodeError, ValueError)
InnerCaught == {"JSONDecodeError", "ValueError"}

\* re.sub(fence markers, '', response.text).strip()
StripFences(text) == SelectSeq(text, LAMBDA t : t.kind # "fence")

\* json.loads(json_str)
JsonLoads(json_str) ==
    IF Len(json_str) = 1 /\ json_str[1].kind \in JsonKinds
    THEN [exc |-> "none", ret |-> json_str[1]]
    ELSE [exc |-> "JSONDecodeError", ret |-> None]

\* needle in hay, for two Python strings
Contains(hay, needle) ==
    \/ hay = needle
    \/ <<hay, needle>> \in {<<"destination, duration", "destination">>,
                            <<"destination, duration", "duration">>}

\* field in loaded: key of a dict, element of a list, substring of a str
HasField(loaded, field) ==
    CASE loaded.kind = "dict" -> [exc |-> "none", ret |-> field \in DOMAIN loaded.val]
      [] loaded.kind = "list" ->
            [exc |-> "none", ret |-> \E i \in 1..Len(loaded.val) : loaded.val[i] = Str(field)]
      [] loaded.kind = "str"  -> [exc |-> "none", ret |-> Contains(loaded.val, field)]
      [] OTHER                -> [exc |-> "TypeError", ret |-> FALSE]

\* required_fields = ['destination', 'duration']
RequiredFields == <<"destination", "duration">>

\* all(field in data for field in required_fields), evaluated left to right
RECURSIVE AllRequired(_, _)
AllRequired(loaded, i) ==
    IF i > Len(RequiredFields) THEN [exc |-> "none", ret |-> TRUE]
    ELSE LET h == HasField(loaded, RequiredFields[i])
         IN  IF h.exc # "none" THEN h
             ELSE IF ~h.ret THEN [exc |-> "none", ret |-> FALSE]
             ELSE AllRequired(loaded, i + 1)

\* a variant of setdefault that assigns: data[k] = v, whether or not k is present
SetDefault_Overwrite(d, k, v) == (k :> v) @@ d

\* dict.setdefault(k, v)
SetDefault(d, k, v) == IF k \in DOMAIN d THEN d ELSE d @@ (k :> v)

\* 'Mid-range', [] and 'Mix'
DefaultBudget == Str("Mid-range")
DefaultInterests == List(<<>>)
DefaultExperienceType == Str("Mix")

\* the three data.setdefault calls
ApplyDefaults(d) ==
    SetDefault(SetDefault(SetDefault(d, "budget", DefaultBudget),
                          "interests", DefaultInterests),
               "experience_type", DefaultExperienceType)

\* if 'interests' in data and isinstance(data['interests'], str): wrap it
CleanInterests(d) ==
    IF "interests" \in DOMAIN d /\ d["interests"].kind = "str"
    THEN [d EXCEPT !["interests"] = List(<<@>>)]
    ELSE d

\* the body of the inner try block
InnerTry(json_str) ==
    LET loaded == JsonLoads(json_str)
    IN  IF loaded.exc # "none" THEN loaded
        ELSE LET req == AllRequired(loaded.ret, 1)
             IN  IF req.exc # "none" THEN [exc |-> req.exc, ret |-> None]
                 ELSE IF ~req.ret THEN [exc |-> "ValueError", ret |-> None]
                 ELSE IF loaded.ret.kind # "dict"
                      THEN [exc |-> "AttributeError", ret |-> None]
                 ELSE [exc |-> "none", ret |-> CleanInterests(ApplyDefaults(loaded.ret.val))]

\* parse_natural_language(query), given what the generator answers
ParseNaturalLanguage(gen) ==
    IF gen.kind = "raise"
    THEN IF "APIError" \in ExceptionClasses
         THEN [exc |-> "none", ret |-> None]
         ELSE [exc |-> "APIError", ret |-> None]
    ELSE LET inner == InnerTry(StripFences(gen.text))
         IN  IF inner.exc = "none" THEN inner
             ELSE IF inner.exc \in InnerCaught THEN [exc |-> "none", ret |-> None]
             ELSE IF inner.exc \in ExceptionClasses THEN [exc |-> "none", ret |-> None]
             ELSE [exc |-> inner.exc, ret |-> None]

-----------------------------------------------------------------------------
(* get_top_attractions *)

\* the breadcrumb separator, U+203A, as one token of a heading's text
Separator == ">"

\* the one-element list returned when the fetch fails
Unavailable == << <<"Attractions list unavailable">> >>

\* the keys of the query_types dict
ExperienceTypes == {Str("Most Famous"), Str("Mix"), Str("Offbeat Gems")}

\* query_types: the search phrase of each experience type
QueryTypes(destination) ==
    [e \in ExperienceTypes |->
        CASE e = Str("Most Famous") -> <<"top 10 attractions in", destination>>
          [] e = Str("Mix")         -> <<"best things to do in", destination>>
          [] OTHER                  -> <<"hidden gems in", destination>>]

\* query_types[experience_type], evaluated before the try block
LookupUrl(destination, experience_type) ==
    IF experience_type.kind \in {"list", "dict"}
    THEN [exc |-> "TypeError", ret |-> <<>>]
    ELSE IF experience_type \notin DOMAIN QueryTypes(destination)
    THEN [exc |-> "KeyError", ret |-> <<>>]
    ELSE [exc |-> "none", ret |-> QueryTypes(destination)[experience_type]]

\* h3.text and the separator not in h3.text
KeepHeading(h) == h # <<>> /\ \A i \in 1..Len(h) : h[i] # Separator

\* a variant of the comprehension that filters every heading and then slices
ExtractHeadings_FilterFirst(headings) ==
    Take(SelectSeq(headings, KeepHeading), HeadingLimit)

\* [h3.text for h3 in soup.find_all("h3")[:7] if h3.text and sep not in h3.text]
ExtractHeadings(headings) == SelectSeq(Take(headings, HeadingLimit), KeepHeading)

HttpFail == [kind |-> "raise", headings |-> <<>>]
HttpPage(h) == [kind |-> "page", headings |-> h]
NoPage == [kind |-> "none", headings |-> <<>>]

\* the try block of get_top_attractions, given what requests.get answers
FetchAttractions(http) ==
    IF http.kind = "raise"
    THEN IF "Timeout" \in ExceptionClasses
         THEN [exc |-> "none", ret |-> Unavailable]
         ELSE [exc |-> "Timeout", ret |-> <<>>]
    ELSE [exc |-> "none", ret |-> ExtractHeadings(http.headings)]

\* get_top_attractions(destination, experience_type), given what requests.get answers
GetTopAttractions(destination, experience_type, http) ==
    LET url == LookupUrl(destination, experience_type)
    IN  IF url.exc # "none" THEN url ELSE FetchAttractions(http)

\* the texts an <h3> of the results page may hold
Fort == <<"Fort Kochi">>
Lake == <<"Vembanad Lake">>
Crumb == <<"Home", Separator, "Kerala">>
HeadingTexts == {<<>>, Fort, Lake, Crumb}

\* every results page of at most n headings
Pages(n) == UNION {[1..k -> HeadingTexts] : k \in 0..n}

\* the pages of the submission handlers' runs
SamplePages ==
    {<<Crumb, Fort, <<>>, Lake>>,
     <<Crumb, Crumb, Crumb, Fort, Lake, Fort, Lake, Fort>>}

HttpOutcomes == {HttpFail} \cup {HttpPage(p) : p \in SamplePages}

-----------------------------------------------------------------------------
(* generate_itinerary *)

\* the fixed message returned when the generation call raises
FallbackMessage == "Could not generate itinerary. Please try again with more details."

\* ', '.join(v): raises unless v iterates over strings
Join(v) ==
    IF v.kind = "str" \/ (v.kind = "list" /\ \A i \in 1..Len(v.val) : v.val[i].kind = "str")
    THEN [exc |-> "none", ret |-> v.val]
    ELSE [exc |-> "TypeError", ret |-> <<>>]

\* ', '.join(interests) if interests else 'Not specified'
JoinInterests(interests) ==
    IF Truthy(interests) THEN Join(interests)
    ELSE [exc |-> "none", ret |-> <<"Not specified">>]

\* the prompt f-string, built before the try block
BuildPrompt(d) ==
    LET i == JoinInterests(d["interests"])
    IN  IF i.exc # "none" THEN i
        ELSE [exc |-> "none",
              ret |-> <<d["duration"], d["budget"], d["destination"], i.ret,
                        d["experience_type"]>>]

\* what model.generate_content(prompt) / response.text may give the composer
ComposerResponses == {GenRaise, GenText("## Day 1")}

\* generate_itinerary(data), given what the generator answers
GenerateItinerary(d, gen) ==
    LET prompt == BuildPrompt(d)
    IN  IF prompt.exc # "none" THEN [exc |-> prompt.exc, ret |-> ""]
        ELSE IF gen.kind = "raise"
        THEN IF "APIError" \in ExceptionClasses
             THEN [exc |-> "none", ret |-> FallbackMessage]
             ELSE [exc |-> "APIError", ret |-> ""]
        ELSE [exc |-> "none", ret |-> gen.text]

-----------------------------------------------------------------------------
(* The script run: sidebar, the two submission handlers, the debug block *)

\* st.slider("Duration (days)", 1, 21, 5)
MinDays == 1
MaxDays == 21

\* st.selectbox("Budget", ["Budget", "Mid-range", "Luxury"], index=1)
BudgetTiers == {Str("Budget"), Str("Mid-range"), Str("Luxury")}

\* the dicts the form handler builds from its widgets (the budget left at its
\* preselected option, index=1)
FormInputs ==
    [destination : {Str(""), Str("Goa")},
     duration : {Num(MinDays), Num(MaxDays)},
     budget : {Str("Mid-range")},
     interests : {List(<<>>), List(<<Str("Nature")>>)},
     experience_type : ExperienceTypes]

\* not user_query or len(user_query.split()) < 5
GateRejects(words) == words = 0 \/ words < MinWords

\* the debug information block at the end of the script
DebugBlock(debug, slot) == IF debug /\ slot # None THEN slot ELSE None

\* the calls a handler has made once the lookup was invoked with a usable label
LookupCalls(sofar, url) ==
    IF url.exc = "none" THEN sofar \o <<"get_top_attractions", "requests.get">>
    ELSE sofar \o <<"get_top_attractions">>

\* a variant of the composer that attempts the generation call a second time
ComposerCalls_Retry(sofar, prompt) ==
    IF prompt.exc = "none"
    THEN sofar \o <<"generate_itinerary", "generate_content", "generate_content">>
    ELSE sofar \o <<"generate_itinerary">>

\* the calls a handler has made once the lookup returned and the summary was written
ComposerCalls(sofar, prompt) ==
    IF prompt.exc = "none" THEN sofar \o <<"generate_itinerary", "generate_content">>
    ELSE sofar \o <<"generate_itinerary">>

\* a variant of the handler that assigns the slot right after the normalizer
\* returned, whatever it returned
SlotAfterNL_Always(slot, request, rendered) == request

\* st.session_state.parsed_data after the natural-language handler ended
\* (assigned on its last line, reached only when the itinerary was rendered)
SlotAfterNL(slot, request, rendered) == IF rendered THEN request ELSE slot

Init ==
    /\ pc = "idle"
    /\ input_mode = "none"
    /\ debug_mode = FALSE
    /\ session_parsed_data = None
    /\ data = None
    /\ response = NoResponse
    /\ page = NoPage
    /\ attractions = <<>>
    /\ displayed = <<>>
    /\ itinerary = ""
    /\ outcome = "none"
    /\ fault = "none"
    /\ calls = <<>>
    /\ debug_dump = None

\* the "Generate Itinerary" button in natural-language mode, up to the generator call
SubmitNL(words, debug) ==
    /\ pc = "idle"
    /\ input_mode' = "nl"
    /\ debug_mode' = debug
    /\ data' = None
    /\ response' = NoResponse
    /\ page' = NoPage
    /\ attractions' = <<>>
    /\ displayed' = <<>>
    /\ itinerary' = ""
    /\ fault' = "none"
    /\ debug_dump' = None
    /\ session_parsed_data' = SlotAfterNL(session_parsed_data, None, FALSE)
    /\ IF GateRejects(words)
       THEN /\ outcome' = "warning"
            /\ pc' = "idle"
            /\ calls' = <<>>
       ELSE /\ outcome' = "none"
            /\ pc' = "normalizing"
            /\ calls' = <<"parse_natural_language", "generate_content">>

\* the generator answers the normalizer; on a request the handler goes on to the lookup
NormalizerReturns(gen) ==
    /\ pc = "normalizing"
    /\ LET r == ParseNaturalLanguage(gen)
           ok == r.exc = "none" /\ r.ret # None
           url == LookupUrl(r.ret["destination"], r.ret["experience_type"])
       IN  /\ response' = gen
           /\ data' = r.ret
           /\ fault' = IF r.exc # "none" THEN r.exc ELSE IF ok THEN url.exc ELSE "none"
           /\ outcome' = IF r.exc # "none" THEN "fault"
                         ELSE IF ~ok THEN "error"
                         ELSE IF url.exc # "none" THEN "fault" ELSE "none"
           /\ pc' = IF ok /\ url.exc = "none" THEN "fetching" ELSE "idle"
           /\ calls' = IF ok THEN LookupCalls(calls, url) ELSE calls
           /\ debug_dump' = IF r.exc = "none" /\ ~ok
                            THEN DebugBlock(debug_mode, session_parsed_data)
                            ELSE None
           /\ session_parsed_data' = SlotAfterNL(session_parsed_data, r.ret, FALSE)
    /\ UNCHANGED <<input_mode, debug_mode, page, attractions, displayed, itinerary>>

\* the "Generate Itinerary" button of the form, up to the fetch
SubmitForm(f, debug) ==
    /\ pc = "idle"
    /\ LET url == LookupUrl(f["destination"], f["experience_type"])
       IN  /\ input_mode' = "form"
           /\ debug_mode' = debug
           /\ data' = f
           /\ session_parsed_data' = f
           /\ response' = NoResponse
           /\ page' = NoPage
           /\ attractions' = <<>>
           /\ displayed' = <<>>
           /\ itinerary' = ""
           /\ debug_dump' = None
           /\ fault' = url.exc
           /\ outcome' = IF url.exc # "none" THEN "fault" ELSE "none"
           /\ pc' = IF url.exc = "none" THEN "fetching" ELSE "idle"
           /\ calls' = LookupCalls(<<>>, url)

\* requests.get answers; the attractions and the summary are written, the composer is invoked
HttpReturns(http) ==
    /\ pc = "fetching"
    /\ LET a == GetTopAttractions(data["destination"], data["experience_type"], http)
           summary == IF input_mode = "nl" THEN JoinInterests(data["interests"])
                      ELSE Join(data["interests"])
           prompt == BuildPrompt(data)
           exc == IF a.exc # "none" THEN a.exc
                  ELSE IF summary.exc # "none" THEN summary.exc
                  ELSE prompt.exc
       IN  /\ page' = http
           /\ attractions' = a.ret
           /\ displayed' = Take(a.ret, DisplayLimit)
           /\ fault' = exc
           /\ outcome' = IF exc # "none" THEN "fault" ELSE "none"
           /\ pc' = IF exc # "none" THEN "idle" ELSE "composing"
           /\ calls' = IF a.exc # "none" \/ summary.exc # "none" THEN calls
                       ELSE ComposerCalls(calls, prompt)
    /\ UNCHANGED <<input_mode, debug_mode, session_parsed_data, data, response,
                   itinerary, debug_dump>>

\* the generator answers the composer; the itinerary is rendered and the run ends
ComposeReturns(gen) ==
    /\ pc = "composing"
    /\ LET r == GenerateItinerary(data, gen)
           slot == IF input_mode = "nl"
                   THEN SlotAfterNL(session_parsed_data, data, r.exc = "none")
                   ELSE session_parsed_data
       IN  /\ itinerary' = r.ret
           /\ fault' = r.exc
           /\ outcome' = IF r.exc # "none" THEN "fault" ELSE "rendered"
           /\ session_parsed_data' = slot
           /\ debug_dump' = IF r.exc # "none" THEN None ELSE DebugBlock(debug_mode, slot)
    /\ pc' = "idle"
    /\ UNCHANGED <<input_mode, debug_mode, data, response, page, attractions,
                   displayed, calls>>

Next ==
    \/ \E words \in 0..MaxWords, debug \in BOOLEAN : SubmitNL(words, debug)
    \/ \E gen \in NormalizerResponses : NormalizerReturns(gen)
    \/ \E f \in FormInputs, debug \in BOOLEAN : SubmitForm(f, debug)
    \/ \E http \in HttpOutcomes : HttpReturns(http)
    \/ \E gen \in ComposerResponses : ComposeReturns(gen)

Spec == Init /\ [][Next]_vars

-----------------------------------------------------------------------------
(* The attraction lookup on every results page of at most MaxHeadings headings: *)
(* a form submission waiting for requests.get, answered by any such page       *)

InitLookup ==
    /\ pc = "fetching"
    /\ input_mode = "form"
    /\ debug_mode = FALSE
    /\ data = [destination |-> Str("Goa"), duration |-> Num(MaxDays),
               budget |-> Str("Mid-range"), interests |-> List(<<Str("Nature")>>),
               experience_type |-> Str("Mix")]
    /\ session_parsed_data = data
    /\ response = NoResponse
    /\ page = NoPage
    /\ attractions = <<>>
    /\ displayed = <<>>
    /\ itinerary = ""
    /\ outcome = "none"
    /\ fault = "none"
    /\ calls = <<"get_top_attractions", "requests.get">>
    /\ debug_dump = None

NextLookup == pc = "fetching" /\ \E p \in Pages(MaxHeadings) : HttpReturns(HttpPage(p))

SpecLookup == InitLookup /\ [][NextLookup]_vars

-----------------------------------------------------------------------------
(* Properties *)

\* the normalizer has returned in this submission
Answered == response # NoResponse

\* the document left of the generator's text once the fence markers are dropped
ResponseDoc ==
    IF response.kind = "text" /\ Len(StripFences(response.text)) = 1
    THEN StripFences(response.text)[1]
    ELSE Garbage

\* the response parses as a JSON object holding destination and duration
ValidObject ==
    /\ ResponseDoc.kind = "dict"
    /\ {"destination", "duration"} \subseteq DOMAIN ResponseDoc.val

\* s is an initial segment of t
IsPrefix(s, t) == Len(s) =< Len(t) /\ SubSeq(t, 1, Len(s)) = s

\* the headings of a page that are non-empty and hold no separator, in page order
CleanHeadings(h) ==
    SelectSeq(h, LAMBDA x : Len(x) > 0 /\ ~\E i \in 1..Len(x) : x[i] = Separator)

\* C1: a response that parses as an object with destination and duration gives
\* a request with all five fields: each optional field absent from the response
\* has its default (Mid-range, the empty list, Mix), each field present is
\* carried over (interests given as one string being carried as the list of
\* that string); the Kerala example gives exactly the request of the spec.
C1_DefaultsApplied ==
    (Answered /\ ValidObject) =>
        /\ data # None
        /\ DOMAIN data = Keys
        /\ \A k \in Keys :
              IF k \in DOMAIN ResponseDoc.val
              THEN data[k] = IF k = "interests" /\ ResponseDoc.val[k].kind = "str"
                             THEN List(<<ResponseDoc.val[k]>>)
                             ELSE ResponseDoc.val[k]
              ELSE data[k] = CASE k = "budget"    -> Str("Mid-range")
                               [] k = "interests" -> List(<<>>)
                               [] OTHER           -> Str("Mix")
        /\ (DOMAIN ResponseDoc.val = {"destination", "duration", "interests"}
            /\ ResponseDoc.val["destination"] = Str("Kerala")
            /\ ResponseDoc.val["interests"] = List(<<Str("Nature")>>))
           => data = [destination |-> Str("Kerala"), duration |-> Num(5),
                      budget |-> Str("Mid-range"), interests |-> List(<<Str("Nature")>>),
                      experience_type |-> Str("Mix")]

\* C1 witness: the Kerala example has been normalized
C1_Witness ==
    /\ Answered /\ ValidObject
    /\ DOMAIN ResponseDoc.val = {"destination", "duration", "interests"}
    /\ ResponseDoc.val["destination"] = Str("Kerala")
    /\ ResponseDoc.val["interests"] = List(<<Str("Nature")>>)
    /\ data # None

\* C2: when the generator call raises, or its text is not JSON, or the parsed
\* document is not an object holding destination and duration, the normalizer
\* returns None: no request is produced, no exception leaves it, and the
\* handler shows the error message.
C2_FailureReturnsNone ==
    (Answered /\ ~ValidObject) =>
        /\ data = None
        /\ fault = "none"
        /\ outcome = "error"

\* C2 witness: the response is the JSON array of the two required names, which
\* passes the membership test and fails in setdefault
C2_Witness ==
    /\ Answered
    /\ ResponseDoc = List(<<Str("destination"), Str("duration")>>)
    /\ data = None
    /\ outcome = "error"

\* C3: the lookup never raises, whatever request a handler calls it with, and
\* returns the one-element list "Attractions list unavailable" when the fetch fails.
C3_LookupNeverRaises ==
    data # None =>
        \A http \in HttpOutcomes :
            LET a == GetTopAttractions(data["destination"], data["experience_type"], http)
            IN  /\ a.exc = "none"
                /\ http.kind = "raise" => a.ret = << <<"Attractions list unavailable">> >>

\* C4: generate_itinerary returns the generated text or the fallback message
\* for every request a handler holds and never propagates an exception, and a
\* finished submission ended in a rendered result or a user-visible message
\* (the KeyError of the lookup, which is C3, left aside).
C4_NoUnhandledFault ==
    /\ data # None =>
          \A gen \in ComposerResponses :
              LET r == GenerateItinerary(data, gen)
              IN  /\ r.exc = "none"
                  /\ r.ret = IF gen.kind = "raise"
                             THEN "Could not generate itinerary. Please try again with more details."
                             ELSE gen.text
    /\ (pc = "idle" /\ input_mode # "none" /\ fault # "KeyError")
          => outcome \in {"rendered", "warning", "error"}

\* C5: after a successful normalization budget is one of Budget, Mid-range,
\* Luxury and experience_type one of Most Famous, Mix, Offbeat Gems; a budget
\* absent from or unrecognized in the response is Mid-range, an absent
\* experience_type is Mix.
C5_EnumsWithinSets ==
    (Answered /\ data # None) =>
        /\ data["budget"] \in {Str("Budget"), Str("Mid-range"), Str("Luxury")}
        /\ data["experience_type"] \in {Str("Most Famous"), Str("Mix"), Str("Offbeat Gems")}
        /\ ("budget" \notin DOMAIN ResponseDoc.val
            \/ ResponseDoc.val["budget"] \notin BudgetTiers) => data["budget"] = Str("Mid-range")
        /\ "experience_type" \notin DOMAIN ResponseDoc.val => data["experience_type"] = Str("Mix")

\* C6: interests given as one string becomes the one-element list of that
\* string, and interests of every returned request is a list.
C6_InterestsIsSequence ==
    (Answered /\ data # None) =>
        /\ ("interests" \in DOMAIN ResponseDoc.val /\ ResponseDoc.val["interests"].kind = "str")
              => data["interests"] = List(<<ResponseDoc.val["interests"]>>)
        /\ data["interests"].kind = "list"

\* C7: a request that reached the lookup or the composer, by either handler,
\* has a non-empty destination and a duration.
C7_RequiredFieldsPresent ==
    (\E i \in 1..Len(calls) : calls[i] \in {"get_top_attractions", "generate_itinerary"}) =>
        /\ data # None
        /\ "destination" \in DOMAIN data
        /\ data["destination"].kind = "str"
        /\ data["destination"].val # ""
        /\ "duration" \in DOMAIN data

\* C8 as stated: once a handler has ended (rendered, error message or
\* word-count warning) the slot holds the request of that submission, none if
\* it produced none, and the debug block shows no other request.
C8_SlotHoldsLatestSubmission ==
    (pc = "idle" /\ outcome \in {"rendered", "error", "warning"}) =>
        /\ session_parsed_data = data
        /\ debug_dump \in {None, data}

\* C8 as amended: the slot is written by a form submission when it is submitted
\* and by a natural-language submission only when its itinerary has been
\* rendered; every other step of a natural-language submission (the word-count
\* warning, a failed normalization, an aborted run) leaves the slot as the
\* earlier submission left it, and the debug block shows the slot as it is.
C8_SlotWrittenOnSuccessOnly ==
    [][/\ (input_mode' = "form" /\ pc = "idle") => session_parsed_data' = data'
       /\ (input_mode' = "form" /\ pc # "idle") => session_parsed_data' = session_parsed_data
       /\ (input_mode' = "nl" /\ outcome' = "rendered") => session_parsed_data' = data'
       /\ (input_mode' = "nl" /\ outcome' # "rendered") => session_parsed_data' = session_parsed_data
       /\ debug_dump' \in {None, session_parsed_data'}]_vars

\* C8 witness: a natural-language submission failed normalization after an
\* earlier submission filled the slot, and the debug block shows that request
C8_Witness ==
    /\ pc = "idle"
    /\ input_mode = "nl"
    /\ outcome = "error"
    /\ data = None
    /\ session_parsed_data # None
    /\ debug_dump = session_parsed_data

\* C9: the stages of a submission are invoked in the order normalizer, lookup,
\* composer, each with its external call, none of them twice; in
\* natural-language mode the lookup is invoked only with a request the
\* normalizer returned; a submission that ended in the error message or the
\* word-count warning invoked neither lookup nor composer; a rendered
\* submission made each call exactly once.
C9_StagesInOrderOnce ==
    LET nl == <<"parse_natural_language", "generate_content", "get_top_attractions",
                "requests.get", "generate_itinerary", "generate_content">>
        form == <<"get_top_attractions", "requests.get", "generate_itinerary",
                  "generate_content">>
    IN  /\ input_mode = "none" => calls = <<>>
        /\ input_mode = "nl" => IsPrefix(calls, nl)
        /\ input_mode = "form" => IsPrefix(calls, form)
        /\ (input_mode = "nl" /\ Len(calls) > 2) => (Answered /\ ValidObject /\ data # None)
        /\ outcome = "warning" => calls = <<>>
        /\ outcome = "error" => calls = <<"parse_natural_language", "generate_content">>
        /\ outcome = "rendered" => calls = IF input_mode = "nl" THEN nl ELSE form
        /\ pc = "fetching" => calls[Len(calls)] = "requests.get"
        /\ pc = "composing" => calls[Len(calls)] = "generate_content" /\ page # NoPage

\* C9 witness: a natural-language submission has been rendered
C9_Witness ==
    /\ input_mode = "nl"
    /\ outcome = "rendered"
    /\ Len(calls) = 6

\* C10 as stated: on a fetched page the displayed list is the first 5
\* non-empty, separator-free headings of the page whenever the page has at
\* least 5, and never holds more than 5 entries or an entry with the separator.
C10_FirstFiveOfPage ==
    (pc = "composing" /\ page.kind = "page") =>
        /\ Len(CleanHeadings(page.headings)) >= 5
              => displayed = SubSeq(CleanHeadings(page.headings), 1, 5)
        /\ Len(displayed) =< 5
        /\ CleanHeadings(displayed) = displayed

\* C10 as amended: the headings are cut to the first 7 of the page before the
\* filter: the displayed list is the first 5 non-empty, separator-free headings
\* among the first 7 headings of the page (all of them when there are fewer
\* than 5), and never holds more than 5 entries or an entry with the separator.
C10_FirstFiveOfFirstSeven ==
    (pc = "composing" /\ page.kind = "page") =>
        LET first7 == [i \in 1..(IF Len(page.headings) < 7 THEN Len(page.headings) ELSE 7)
                          |-> page.headings[i]]
            clean == CleanHeadings(first7)
        IN  /\ displayed = [i \in 1..(IF Len(clean) < 5 THEN Len(clean) ELSE 5) |-> clean[i]]
            /\ Len(displayed) =< 5
            /\ CleanHeadings(displayed) = displayed

\* C10 witness: a page of 8 headings with 5 clean ones, the fifth of them in
\* eighth place, has been fetched and 4 attractions are displayed
C10_Witness ==
    /\ pc = "composing"
    /\ page.kind = "page"
    /\ Len(page.headings) = 8
    /\ Len(CleanHeadings(page.headings)) = 5
    /\ page.headings[8] = Lake
    /\ Len(displayed) = 4

====
